---------------------------- MODULE Spec2Model ----------------------------
(***************************************************************************)
(* Model of go-jailconf: the structured and the raw (span-preserving)      *)
(* materialisation of a jail.conf syntax tree, the string codec, and the   *)
(* block-level edits (find, remove, append) on the raw document.           *)
(*                                                                         *)
(* A Go string is a sequence of one-character strings.  A *node32 is a     *)
(* record [pegRule, begin, end, up]; the first-child/next-sibling chain    *)
(* (node.up, node.next, ...) is the sequence up.  A nil pointer is NilNode.*)
(* A Go map is a function; the order in which `range` visits it is chosen  *)
(* by the action that iterates.  A panic is an outcome of the operation.   *)
(***************************************************************************)
EXTENDS Integers, Sequences, FiniteSets, TLC

VARIABLES
    parser,     \* JailConfParser: [Buffer, AST]
    conf,       \* the JailConfRaw being edited: [Entries]
    orig,       \* the JailConfRaw as HandleTopRaw built it (history)
    removed,    \* names of the RemoveJailBlock calls that returned (history)
    nEdits,     \* number of edit operations so far
    last,       \* the last editor call: what it was given and how it ended
    jblk,       \* the JailBlock under serialisation
    out,        \* what JailBlock.WriteTo wrote
    raw,        \* what JailBlock.ToRaw returned
    s,          \* the string handed to the codec
    res,        \* what the string handler gave back to its caller
    input,      \* the items the source text was written from (history)
    appended,   \* the JailBlocks appended so far, in order (history)
    pc          \* position of the scenario

vars == <<parser, conf, orig, removed, nEdits, last, jblk, out, raw, s, res,
          input, appended, pc>>

(***************************************************************************)
(* Bounds                                                                  *)
(***************************************************************************)
MaxLen == 3         \* longest string handed to the codec
MaxTop == 2         \* most top-level entries of a source document
MaxStmts == 4       \* most statements in a block
MaxEdits == 2       \* most edit operations on one document

(***************************************************************************)
(* Strings                                                                 *)
(***************************************************************************)
RECURSIVE Concat(_)
Concat(ss) == IF ss = <<>> THEN <<>> ELSE Head(ss) \o Concat(Tail(ss))

RECURSIVE Join(_, _)
Join(ss, sep) ==
    IF ss = <<>> THEN <<>>
    ELSE IF Len(ss) = 1 THEN ss[1]
    ELSE ss[1] \o sep \o Join(Tail(ss), sep)

Contains(str, c) == \E i \in 1..Len(str) : str[i] = c

\* Go's str[b:e], offsets counted from 0, e exclusive
Slice(str, b, e) == SubSeq(str, b + 1, e)

RECURSIVE QuoteBody(_)
QuoteBody(str) ==
    IF str = <<>> THEN <<>>
    ELSE LET c == Head(str)
             esc == IF c = "\\" THEN <<"\\", "\\">>
                    ELSE IF c = "\"" THEN <<"\\", "\"">>
                    ELSE IF c = "\n" THEN <<"\\", "n">>
                    ELSE <<c>>
         IN  esc \o QuoteBody(Tail(str))

\* strconv.Quote on the characters of the model's alphabet
Quote(str) == <<"\"">> \o QuoteBody(str) \o <<"\"">>

RECURSIVE UnquoteFrom(_, _)
UnquoteFrom(in, i) ==
    IF i > Len(in) THEN [err |-> FALSE, str |-> <<>>]
    ELSE LET c == in[i] IN
         IF c = "\"" \/ c = "\n" THEN [err |-> TRUE, str |-> <<>>]
         ELSE IF c # "\\"
              THEN LET r == UnquoteFrom(in, i + 1)
                   IN  [err |-> r.err, str |-> <<c>> \o r.str]
         ELSE IF i = Len(in) THEN [err |-> TRUE, str |-> <<>>]
         ELSE LET d == in[i + 1]
                  r == UnquoteFrom(in, i + 2)
              IN  IF d \in {"\\", "\""}
                  THEN [err |-> r.err, str |-> <<d>> \o r.str]
                  ELSE IF d = "n"
                  THEN [err |-> r.err, str |-> <<"\n">> \o r.str]
                  ELSE [err |-> TRUE, str |-> <<>>]

ClearOnError(r) == IF r.err THEN [err |-> TRUE, str |-> <<>>] ELSE r

\* strconv.Unquote("\"" + text + "\""): (string, error); the string is ""
\* whenever the error is set
Unquote(text) == ClearOnError(UnquoteFrom(text, 1))

EscapeString(str) ==
    LET q == Quote(str)
    IN  IF ~Contains(str, " ") /\ Slice(q, 1, Len(q) - 1) = str
        THEN str
        ELSE q

(***************************************************************************)
(* Syntax tree (the generated PEG parser's node32)                         *)
(***************************************************************************)
Node(rule, b, e, kids) == [pegRule |-> rule, begin |-> b, end |-> e, up |-> kids]

NilNode == Node("nil", 0, 0, <<>>)

\* the text of a node: parser.Buffer[node.begin:node.end]
NodeText(p, node) == Slice(p.Buffer, node.begin, node.end)

UnquotedSafe(c) ==
    c \notin {" ", "\n", "\t", "\"", "'", "{", "}", ";", ",", "=", "#"}

\* unquoted-string: a run of safe characters; backslash-newline is a line
\* continuation.  off is the buffer offset of text[1].
RECURSIVE LexUnquotedChars(_, _, _)
LexUnquotedChars(text, i, off) ==
    IF i > Len(text) THEN <<>>
    ELSE IF i < Len(text) /\ text[i] = "\\" /\ text[i + 1] = "\n"
    THEN <<Node("line_continuation", off + i - 1, off + i + 1, <<>>)>>
         \o LexUnquotedChars(text, i + 2, off)
    ELSE IF UnquotedSafe(text[i])
    THEN <<Node("unquoted_safe_char", off + i - 1, off + i, <<>>)>>
         \o LexUnquotedChars(text, i + 1, off)
    ELSE <<>>

\* the inside of a quoted-string delimited by q: escaped quote, escaped
\* backslash, line continuation, or any other character but q; close is the
\* index of the closing quote, 0 when there is none
RECURSIVE LexQuotedChars(_, _, _, _)
LexQuotedChars(text, i, q, off) ==
    IF i > Len(text) THEN [up |-> <<>>, close |-> 0]
    ELSE IF text[i] = q THEN [up |-> <<>>, close |-> i]
    ELSE LET two == i < Len(text) /\ text[i] = "\\"
             n == IF two /\ text[i + 1] = q
                  THEN Node(IF q = "'" THEN "esc_sing_quote" ELSE "esc_dbl_quote",
                            off + i - 1, off + i + 1, <<>>)
                  ELSE IF two /\ text[i + 1] = "\\"
                  THEN Node("esc_backslash", off + i - 1, off + i + 1, <<>>)
                  ELSE IF two /\ text[i + 1] = "\n"
                  THEN Node("line_continuation", off + i - 1, off + i + 1, <<>>)
                  ELSE Node(IF q = "'" THEN "sing_quote_safe_char"
                                       ELSE "dbl_quote_safe_char",
                            off + i - 1, off + i, <<>>)
             r == LexQuotedChars(text, i + (n.end - n.begin), q, off)
         IN  [up |-> <<n>> \o r.up, close |-> r.close]

NoMatch == [ok |-> FALSE, node |-> NilNode, len |-> 0]

QuotedMatch(q, off, r) ==
    IF r.close = 0 THEN NoMatch
    ELSE [ok |-> TRUE, len |-> r.close,
          node |-> Node("string", off, off + r.close,
              <<Node("quoted_string", off, off + r.close,
                  <<Node(IF q = "'" THEN "single_quoted_string"
                                    ELSE "double_quoted_string",
                         off, off + r.close, r.up)>>)>>)]

UnquotedMatch(off, kids) ==
    IF kids = <<>> THEN NoMatch
    ELSE [ok |-> TRUE, len |-> kids[Len(kids)].end - off,
          node |-> Node("string", off, kids[Len(kids)].end,
              <<Node("unquoted_string", off, kids[Len(kids)].end, kids)>>)]

\* string := unquoted-string | quoted-string(single | double), matched at the
\* start of text: [ok, node, len], len the number of characters matched
LexString(text, off) ==
    IF text = <<>> THEN NoMatch
    ELSE IF text[1] \in {"\"", "'"}
    THEN QuotedMatch(text[1], off, LexQuotedChars(text, 2, text[1], off))
    ELSE UnquotedMatch(off, LexUnquotedChars(text, 1, off))

(***************************************************************************)
(* Structured model builder                                                *)
(***************************************************************************)
JailValueFromString(str) == [Items |-> <<str>>]

ExtendOverwrite(value, other) == [Items |-> other.Items]

Extend(value, other) == [Items |-> value.Items \o other.Items]

\* the text the handler's loop assembles from the children of the literal
RECURSIVE AssembleText(_, _, _)
AssembleText(p, kids, i) ==
    IF i > Len(kids) THEN <<>>
    ELSE LET r == kids[i].pegRule
             t == IF r \in {"unquoted_safe_char", "sing_quote_safe_char",
                            "dbl_quote_safe_char"}
                  THEN NodeText(p, kids[i])
                  ELSE IF r = "esc_sing_quote" THEN <<"\\", "'">>
                  ELSE IF r = "esc_dbl_quote" THEN <<"\\", "\"">>
                  ELSE IF r = "esc_backslash" THEN <<"\\", "\\">>
                  ELSE <<>>
         IN  t \o AssembleText(p, kids, i + 1)

\* text, _ = strconv.Unquote(...): the error is dropped
HandleUnquotedString(p, node) ==
    [Items |-> <<Unquote(AssembleText(p, node.up, 1)).str>>]

HandleSingleQuotedString(p, node) ==
    [Items |-> <<Unquote(AssembleText(p, node.up, 1)).str>>]

HandleDoubleQuotedString(p, node) ==
    [Items |-> <<Unquote(AssembleText(p, node.up, 1)).str>>]

\* node is a string node; any other shape of tree panics (no OTHER arm)
HandleString(p, node) ==
    LET n == node.up[1] IN
    CASE n.pegRule = "unquoted_string" -> HandleUnquotedString(p, n)
      [] n.pegRule = "quoted_string" /\ n.up[1].pegRule = "single_quoted_string"
            -> HandleSingleQuotedString(p, n.up[1])
      [] n.pegRule = "quoted_string" /\ n.up[1].pegRule = "double_quoted_string"
            -> HandleDoubleQuotedString(p, n.up[1])

HandleSingleValue(p, node) == HandleString(p, node.up[1])

\* JailValue.Item() of a one-item value (HandleSingleValue gives no other)
RECURSIVE HandleListItems(_, _, _)
HandleListItems(p, kids, i) ==
    IF i > Len(kids) THEN <<>>
    ELSE (IF kids[i].pegRule = "single_value"
          THEN <<HandleSingleValue(p, kids[i]).Items[1]>> ELSE <<>>)
         \o HandleListItems(p, kids, i + 1)

HandleListOfValues(p, node) == [Items |-> HandleListItems(p, node.up, 1)]

HandleValue(p, node) ==
    LET n == node.up[1] IN
    CASE n.pegRule = "single_value" -> HandleSingleValue(p, n)
      [] n.pegRule = "list_of_values" -> HandleListOfValues(p, n)

\* the loop of HandleKeyValuePair / HandleKeyValueAppendPair / HandleKeySet:
\* the last key child and the last value child win
RECURSIVE ScanPair(_, _, _, _)
ScanPair(p, kids, i, acc) ==
    IF i > Len(kids) THEN acc
    ELSE LET n == kids[i]
             nxt == IF n.pegRule = "key"
                    THEN [acc EXCEPT !.Key = HandleString(p, n.up[1]).Items[1]]
                    ELSE IF n.pegRule = "value"
                    THEN [acc EXCEPT !.Value = HandleValue(p, n)]
                    ELSE acc
         IN  ScanPair(p, kids, i + 1, nxt)

HandleKeyValuePair(p, node) ==
    ScanPair(p, node.up, 1, [Key |-> <<>>, Value |-> [Items |-> <<>>]])

HandleKeyValueAppendPair(p, node) ==
    ScanPair(p, node.up, 1, [Key |-> <<>>, Value |-> [Items |-> <<>>]])

LastDot(key) ==
    IF Contains(key, ".")
    THEN CHOOSE i \in 1..Len(key) :
            key[i] = "." /\ \A j \in (i + 1)..Len(key) : key[j] # "."
    ELSE 0

GetKeySetValue(key) ==
    LET d == LastDot(key)
        lastc == SubSeq(key, d + 1, Len(key))
        isNegative == Len(lastc) >= 2 /\ lastc[1] = "n" /\ lastc[2] = "o"
    IN  IF isNegative
        THEN <<SubSeq(key, 1, d) \o SubSeq(lastc, 3, Len(lastc)),
               <<"f", "a", "l", "s", "e">> >>
        ELSE <<key, <<"t", "r", "u", "e">> >>

KeySetPair(r) == [Key |-> r[1], Value |-> JailValueFromString(r[2])]

HandleKeySet(p, node) ==
    KeySetPair(GetKeySetValue(
        ScanPair(p, node.up, 1, [Key |-> <<>>, Value |-> [Items |-> <<>>]]).Key))

\* m[k] = v on a Go map
MapSet(m, k, v) ==
    [x \in (DOMAIN m) \cup {k} |-> IF x = k THEN v ELSE m[x]]

\* m[k] on a Go map: the zero JailValue when k is absent
MapGet(m, k) == IF k \in DOMAIN m THEN m[k] ELSE [Items |-> <<>>]

\* jailBlock.KeyValuePairs[kvp.Key] = kvp.Value
Assign(m, kvp) == MapSet(m, kvp.Key, kvp.Value)

\* jailBlock.KeyValuePairs[kvp.Key] =
\*     jailBlock.KeyValuePairs[kvp.Key].Extend(kvp.Value)
AssignExtended(m, kvp) ==
    MapSet(m, kvp.Key, Extend(MapGet(m, kvp.Key), kvp.Value))

RECURSIVE JailBlockLoop(_, _, _, _)
JailBlockLoop(p, kids, i, acc) ==
    IF i > Len(kids) THEN acc
    ELSE JailBlockLoop(p, kids, i + 1,
           IF kids[i].pegRule = "jail_name"
           THEN [acc EXCEPT !.jailName = HandleString(p, kids[i].up[1])]
           ELSE IF kids[i].pegRule = "key_value_pair"
           THEN [acc EXCEPT !.kv = Assign(@, HandleKeyValuePair(p, kids[i]))]
           ELSE IF kids[i].pegRule = "key_value_append_pair"
           THEN [acc EXCEPT !.kv =
                    AssignExtended(@, HandleKeyValueAppendPair(p, kids[i]))]
           ELSE IF kids[i].pegRule = "key_set"
           THEN [acc EXCEPT !.kv = Assign(@, HandleKeySet(p, kids[i]))]
           ELSE acc)

EmptyBlock == [Name |-> <<>>, KeyValuePairs |-> <<>>]

\* jailBlock.Name = jailName.Item(): Item() of a value that has not exactly
\* one item panics
NamedBlock(r) ==
    IF Len(r.jailName.Items) # 1
    THEN [panic |-> TRUE, block |-> EmptyBlock]
    ELSE [panic |-> FALSE,
          block |-> [Name |-> r.jailName.Items[1], KeyValuePairs |-> r.kv]]

\* the outcome of the call; node.up on a nil node panics
HandleJailBlock(p, node) ==
    IF node = NilNode THEN [panic |-> TRUE, block |-> EmptyBlock]
    ELSE NamedBlock(JailBlockLoop(p, node.up, 1,
                        [jailName |-> [Items |-> <<>>], kv |-> <<>>]))

(***************************************************************************)
(* Structured writer                                                       *)
(***************************************************************************)
RECURSIVE EscapeAll(_)
EscapeAll(items) ==
    IF items = <<>> THEN <<>>
    ELSE <<EscapeString(Head(items))>> \o EscapeAll(Tail(items))

Sprint(value) == Join(EscapeAll(value.Items), <<",", " ">>)

JailKeyValuePairWriteTo(kvp) ==
    kvp.Key \o <<" ", "=", " ">> \o Sprint(kvp.Value) \o <<";", "\n">>

\* the orders in which `range m` may visit the keys of a Go map
RangeOrders(m) ==
    {o \in [1..Cardinality(DOMAIN m) -> DOMAIN m] :
        \A i, j \in DOMAIN o : i # j => o[i] # o[j]}

RECURSIVE FieldLines(_, _, _)
FieldLines(b, order, i) ==
    IF i > Len(order) THEN <<>>
    ELSE <<(<<" ", " ">> \o JailKeyValuePairWriteTo(
               [Key |-> order[i], Value |-> b.KeyValuePairs[order[i]]]))>>
         \o FieldLines(b, order, i + 1)

\* order is the order in which the range loop visited the map
JailBlockWriteTo(b, order) ==
    EscapeString(b.Name) \o <<" ", "{", "\n">>
        \o Concat(FieldLines(b, order, 1)) \o <<"}", "\n">>

(***************************************************************************)
(* Raw model: builder, writer, editor                                      *)
(***************************************************************************)
JailEntryRaw(node, text) ==
    [type |-> "JailEntryRaw", Node |-> node, Text |-> text, Entries |-> <<>>]

JailBlockRaw(node, entries) ==
    [type |-> "JailBlockRaw", Node |-> node, Text |-> <<>>, Entries |-> entries]

RECURSIVE RawChildren(_, _, _)
RawChildren(p, kids, i) ==
    IF i > Len(kids) THEN <<>>
    ELSE <<JailEntryRaw(kids[i], NodeText(p, kids[i]))>>
         \o RawChildren(p, kids, i + 1)

\* called on jail_block nodes only, so the rule check passes
HandleJailBlockRaw(p, node) == JailBlockRaw(node, RawChildren(p, node.up, 1))

RECURSIVE TopRawEntries(_, _, _)
TopRawEntries(p, kids, i) ==
    IF i > Len(kids) THEN <<>>
    ELSE <<(IF kids[i].pegRule = "jail_block"
            THEN HandleJailBlockRaw(p, kids[i])
            ELSE JailEntryRaw(kids[i], NodeText(p, kids[i])))>>
         \o TopRawEntries(p, kids, i + 1)

\* called on the top node only, so the rule check passes
HandleTopRaw(p, node) == [Entries |-> TopRawEntries(p, node.up, 1)]

ToRawConf(p) == HandleTopRaw(p, p.AST)

RECURSIVE Texts(_)
Texts(entries) ==
    IF entries = <<>> THEN <<>>
    ELSE <<Head(entries).Text>> \o Texts(Tail(entries))

\* JailEntryRaw.WriteTo and JailBlockRaw.WriteTo
EntryWriteTo(e) ==
    IF e.type = "JailBlockRaw" THEN Concat(Texts(e.Entries)) ELSE e.Text

RECURSIVE JailConfRawWriteTo(_)
JailConfRawWriteTo(c) ==
    IF c.Entries = <<>> THEN <<>>
    ELSE EntryWriteTo(Head(c.Entries))
         \o JailConfRawWriteTo([Entries |-> Tail(c.Entries)])

ToBlock(p, b) == HandleJailBlock(p, b.Node)

\* r is the block of the entry at hand, next the rest of the loop
MatchOrGoOn(r, name, next) ==
    IF r.panic THEN [outcome |-> "panic", block |-> EmptyBlock]
    ELSE IF r.block.Name = name THEN [outcome |-> "ok", block |-> r.block]
    ELSE next

RECURSIVE GetJailBlockLoop(_, _, _, _)
GetJailBlockLoop(p, entries, name, i) ==
    IF i > Len(entries) THEN [outcome |-> "err", block |-> EmptyBlock]
    ELSE IF entries[i].type # "JailBlockRaw"
    THEN GetJailBlockLoop(p, entries, name, i + 1)
    ELSE MatchOrGoOn(ToBlock(p, entries[i]), name,
                     GetJailBlockLoop(p, entries, name, i + 1))

GetJailBlock(p, c, name) == GetJailBlockLoop(p, c.Entries, name, 1)

\* one round of the loop on a block entry e whose block is r
DropOrKeep(r, e, name, acc) ==
    IF r.panic THEN [acc EXCEPT !.panic = TRUE]
    ELSE IF r.block.Name = name THEN [acc EXCEPT !.wasRemoved = TRUE]
    ELSE [acc EXCEPT !.conf.Entries = Append(@, e)]

RECURSIVE RemoveJailBlockLoop(_, _, _, _, _)
RemoveJailBlockLoop(p, entries, name, i, acc) ==
    IF i > Len(entries) \/ acc.panic THEN acc
    ELSE RemoveJailBlockLoop(p, entries, name, i + 1,
           IF entries[i].type # "JailBlockRaw"
           THEN [acc EXCEPT !.conf.Entries = Append(@, entries[i])]
           ELSE DropOrKeep(ToBlock(p, entries[i]), entries[i], name, acc))

IsBlockEntry(e) == e.type = "JailBlockRaw"

BlockEntriesOnly(r) == [r EXCEPT !.conf.Entries = SelectSeq(@, IsBlockEntry)]

RemoveJailBlockNoDefaultArm(p, c, name) ==
    BlockEntriesOnly(RemoveJailBlockLoop(p, c.Entries, name, 1,
        [panic |-> FALSE, conf |-> [Entries |-> <<>>], wasRemoved |-> FALSE]))

RemoveJailBlock(p, c, name) ==
    RemoveJailBlockLoop(p, c.Entries, name, 1,
        [panic |-> FALSE, conf |-> [Entries |-> <<>>], wasRemoved |-> FALSE])

RECURSIVE RawFieldEntries(_, _, _)
RawFieldEntries(b, order, i) ==
    IF i > Len(order) THEN <<>>
    ELSE <<JailEntryRaw(NilNode, <<" ", " ">> \o JailKeyValuePairWriteTo(
               [Key |-> order[i], Value |-> b.KeyValuePairs[order[i]]]))>>
         \o RawFieldEntries(b, order, i + 1)

\* order is the order in which the range loop visited the map
ToRaw(b, order) ==
    JailBlockRaw(NilNode,
        <<JailEntryRaw(NilNode, <<"\n">> \o b.Name \o <<" ", "{", "\n">>)>>
        \o RawFieldEntries(b, order, 1)
        \o <<JailEntryRaw(NilNode, <<"}", "\n">>)>>)

(***************************************************************************)
(* The grammar: source text and syntax tree of a document given as a       *)
(* sequence of items [kind, lit, vals, stmts].  Whitespace and comments    *)
(* are nodes; the braces of a block are literals of the jail-block rule    *)
(* and belong to no child node.                                            *)
(***************************************************************************)
Item(kind, lit, vals, stmts) ==
    [kind |-> kind, lit |-> lit, vals |-> vals, stmts |-> stmts]

Ws == Item("ws", <<" ">>, <<>>, <<>>)

RECURSIVE Interleave(_)
Interleave(stmts) ==
    IF stmts = <<>> THEN <<Ws>>
    ELSE <<Ws, Head(stmts)>> \o Interleave(Tail(stmts))

RECURSIVE ItemText(_), ItemTexts(_)
ItemText(it) ==
    CASE it.kind = "key_value_pair" ->
            it.lit \o <<" ", "=", " ">> \o Join(it.vals, <<",">>) \o <<";">>
      [] it.kind = "key_value_append_pair" ->
            it.lit \o <<" ", "+", "=", " ">> \o Join(it.vals, <<",">>) \o <<";">>
      [] it.kind = "key_set" -> it.lit \o <<";">>
      [] it.kind = "jail_block" ->
            it.lit \o <<"{">> \o ItemTexts(Interleave(it.stmts)) \o <<"}">>
      [] OTHER -> it.lit

ItemTexts(items) ==
    IF items = <<>> THEN <<>>
    ELSE ItemText(Head(items)) \o ItemTexts(Tail(items))

RECURSIVE SingleValueNodes(_, _)
SingleValueNodes(vals, off) ==
    IF vals = <<>> THEN <<>>
    ELSE <<Node("single_value", off, off + Len(Head(vals)),
               <<LexString(Head(vals), off).node>>)>>
         \o SingleValueNodes(Tail(vals), off + Len(Head(vals)) + 1)

ValueNode(vals, off) ==
    LET e == off + Len(Join(vals, <<",">>))
        kids == SingleValueNodes(vals, off)
    IN  Node("value", off, e,
            IF Len(vals) = 1 THEN kids
            ELSE <<Node("list_of_values", off, e, kids)>>)

RECURSIVE ItemNode(_, _), ItemNodes(_, _)
ItemNode(it, off) ==
    LET e == off + Len(ItemText(it))
        name == Node(IF it.kind = "jail_block" THEN "jail_name" ELSE "key",
                     off, off + Len(it.lit), <<LexString(it.lit, off).node>>)
    IN  CASE it.kind = "key_value_pair" ->
                Node(it.kind, off, e,
                     <<name, ValueNode(it.vals, off + Len(it.lit) + 3)>>)
          [] it.kind = "key_value_append_pair" ->
                Node(it.kind, off, e,
                     <<name, ValueNode(it.vals, off + Len(it.lit) + 4)>>)
          [] it.kind = "key_set" -> Node(it.kind, off, e, <<name>>)
          [] it.kind = "jail_block" ->
                Node(it.kind, off, e,
                     <<name>> \o ItemNodes(Interleave(it.stmts),
                                           off + Len(it.lit) + 1))
          [] OTHER -> Node(it.kind, off, e, <<>>)

ItemNodes(items, off) ==
    IF items = <<>> THEN <<>>
    ELSE <<ItemNode(Head(items), off)>>
         \o ItemNodes(Tail(items), off + Len(ItemText(Head(items))))

\* the parser after Init() and Parse() on the text of items
Parse(items) ==
    LET buf == ItemTexts(items)
    IN  [Buffer |-> buf, AST |-> Node("top", 0, Len(buf), ItemNodes(items, 0))]

NoParser == [Buffer |-> <<>>, AST |-> NilNode]

(***************************************************************************)
(* Inputs                                                                  *)
(***************************************************************************)
SeqsUpTo(S, n) == UNION {[1..k -> S] : k \in 0..n}

Chars == {"q", "n", " ", ";", "\\", "\"", "'", "\n"}

Strings == SeqsUpTo(Chars, MaxLen)

KeySetQ == Item("key_set", <<"q">>, <<>>, <<>>)

PairQ == Item("key_value_pair", <<"q">>, << <<"n">> >>, <<>>)

TopChoices ==
    { Item("jail_block", <<"x">>, <<>>, <<KeySetQ>>),
      Item("jail_block", <<"'", "x", "'">>, <<>>, <<>>),
      Item("jail_block", <<"y">>, <<>>, <<PairQ>>),
      Item("comment", <<"#", "c", "\n">>, <<>>, <<>>),
      PairQ }

Docs == SeqsUpTo(TopChoices, MaxTop)

Names == { <<"x">>, <<"y">>, <<"l">> }

NewBlocks ==
    { [Name |-> <<"l">>,
       KeyValuePairs |-> (<<"q">> :> JailValueFromString(<<"n">>))
                         @@ (<<"k">> :> JailValueFromString(<<"t">>))],
      [Name |-> <<"x">>, KeyValuePairs |-> <<>>] }

StmtChoices ==
    { Item("key_value_pair", <<"k">>, << <<"1">>, <<"2">>, <<"3">> >>, <<>>),
      Item("key_value_append_pair", <<"k">>, << <<"4">> >>, <<>>),
      Item("key_set", <<"n", "o", "k">>, <<>>, <<>>),
      Item("key_value_pair", <<"j">>, << <<"5">> >>, <<>>),
      Item("key_value_append_pair", <<"j">>, << <<"'", "a", " ", "b", "'">> >>, <<>>) }

BlockNames == { <<"x">>, <<"'", "m", " ", "j", "'">> }

BlockDocs ==
    { <<Item("jail_block", n, <<>>, st)>> :
        n \in BlockNames, st \in SeqsUpTo(StmtChoices, MaxStmts) }

NoConf == [Entries |-> <<>>]

NoLast ==
    [op |-> "none", name |-> <<>>, outcome |-> "ok", block |-> EmptyBlock,
     pre |-> NoConf, wasRemoved |-> FALSE]

NoRes == [outcome |-> "none", value |-> [Items |-> <<>>]]

NoRaw == JailBlockRaw(NilNode, <<>>)

(***************************************************************************)
(* Raw editing of a parsed document                                        *)
(***************************************************************************)
InitEdit ==
    /\ input \in Docs
    /\ parser = Parse(input)
    /\ conf = NoConf /\ orig = NoConf
    /\ removed = {} /\ appended = <<>> /\ nEdits = 0 /\ last = NoLast
    /\ jblk = EmptyBlock /\ out = <<>> /\ raw = NoRaw
    /\ s = <<>> /\ res = NoRes
    /\ pc = "parsed"

\* conf := parser.ToRawConf()
BuildRaw ==
    /\ pc = "parsed"
    /\ conf' = ToRawConf(parser)
    /\ orig' = conf'
    /\ pc' = "raw"
    /\ UNCHANGED <<parser, removed, nEdits, last, jblk, out, raw, s, res,
                   input, appended>>

\* conf.Entries = append(conf.Entries, newJail.ToRaw())
AppendBlock ==
    /\ pc = "raw" /\ nEdits < MaxEdits
    /\ \E b \in NewBlocks : \E order \in RangeOrders(b.KeyValuePairs) :
          /\ conf' = [Entries |-> Append(conf.Entries, ToRaw(b, order))]
          /\ appended' = Append(appended, b)
          /\ last' = [op |-> "append", name |-> b.Name, outcome |-> "ok",
                      block |-> b, pre |-> conf, wasRemoved |-> FALSE]
    /\ nEdits' = nEdits + 1
    /\ UNCHANGED <<parser, orig, removed, jblk, out, raw, s, res, input, pc>>

Found(name, r) ==
    last' = [op |-> "find", name |-> name, outcome |-> r.outcome,
             block |-> r.block, pre |-> conf, wasRemoved |-> FALSE]

\* parser.GetJailBlock(conf, name)
FindBlock ==
    /\ pc = "raw"
    /\ \E name \in Names : Found(name, GetJailBlock(parser, conf, name))
    /\ UNCHANGED <<parser, conf, orig, removed, nEdits, jblk, out, raw, s, res,
                   input, appended, pc>>

Removed(name, r) ==
    /\ conf' = IF r.panic THEN conf ELSE r.conf
    /\ removed' = IF r.panic THEN removed ELSE removed \cup {name}
    /\ last' = [op |-> "remove", name |-> name,
                outcome |-> IF r.panic THEN "panic" ELSE "ok",
                block |-> EmptyBlock, pre |-> conf,
                wasRemoved |-> r.wasRemoved]

\* conf, wasRemoved = parser.RemoveJailBlock(conf, name); a panic leaves the
\* caller with the document it had
RemoveBlock ==
    /\ pc = "raw" /\ nEdits < MaxEdits
    /\ \E name \in Names : Removed(name, RemoveJailBlock(parser, conf, name))
    /\ nEdits' = nEdits + 1
    /\ UNCHANGED <<parser, orig, jblk, out, raw, s, res, input, appended, pc>>

NextEdit == BuildRaw \/ AppendBlock \/ FindBlock \/ RemoveBlock

SpecEdit == InitEdit /\ [][NextEdit]_vars

(***************************************************************************)
(* Building and serialising one block                                      *)
(***************************************************************************)
InitBlock ==
    /\ input \in BlockDocs
    /\ parser = Parse(input)
    /\ conf = NoConf /\ orig = NoConf
    /\ removed = {} /\ appended = <<>> /\ nEdits = 0 /\ last = NoLast
    /\ jblk = EmptyBlock /\ out = <<>> /\ raw = NoRaw
    /\ s = <<>> /\ res = NoRes
    /\ pc = "parsed"

Built(r) == ~r.panic /\ jblk' = r.block

\* jblk := parser.HandleJailBlock(node) on the block node of the document
BuildBlock ==
    /\ pc = "parsed"
    /\ Built(HandleJailBlock(parser, parser.AST.up[1]))
    /\ pc' = "built"
    /\ UNCHANGED <<parser, conf, orig, removed, nEdits, last, out, raw, s, res,
                   input, appended>>

\* jblk.WriteTo(w)
WriteBlock ==
    /\ pc = "built"
    /\ \E order \in RangeOrders(jblk.KeyValuePairs) :
          out' = JailBlockWriteTo(jblk, order)
    /\ pc' = "written"
    /\ UNCHANGED <<parser, conf, orig, removed, nEdits, last, jblk, raw, s, res,
                   input, appended>>

\* jblk.ToRaw()
SynthBlock ==
    /\ pc = "written"
    /\ \E order \in RangeOrders(jblk.KeyValuePairs) :
          raw' = ToRaw(jblk, order)
    /\ pc' = "synthesized"
    /\ UNCHANGED <<parser, conf, orig, removed, nEdits, last, jblk, out, s, res,
                   input, appended>>

NextBlock == BuildBlock \/ WriteBlock \/ SynthBlock

SpecBlock == InitBlock /\ [][NextBlock]_vars

(***************************************************************************)
(* The codec: a string is encoded, or stands in a document as it is, then  *)
(* lexed and decoded                                                       *)
(***************************************************************************)
InitCodec ==
    /\ s \in Strings
    /\ parser = NoParser /\ input = <<>>
    /\ conf = NoConf /\ orig = NoConf
    /\ removed = {} /\ appended = <<>> /\ nEdits = 0 /\ last = NoLast
    /\ jblk = EmptyBlock /\ out = <<>> /\ raw = NoRaw
    /\ res = NoRes
    /\ pc = "start"

\* the literal is EscapeString(s)
Encode ==
    /\ pc = "start"
    /\ parser' = [Buffer |-> EscapeString(s), AST |-> NilNode]
    /\ last' = [NoLast EXCEPT !.op = "encode"]
    /\ pc' = "text"
    /\ UNCHANGED <<conf, orig, removed, nEdits, jblk, out, raw, s, res, input,
                   appended>>

\* the literal is s as the document has it
TakeLiteral ==
    /\ pc = "start"
    /\ parser' = [Buffer |-> s, AST |-> NilNode]
    /\ last' = [NoLast EXCEPT !.op = "literal"]
    /\ pc' = "text"
    /\ UNCHANGED <<conf, orig, removed, nEdits, jblk, out, raw, s, res, input,
                   appended>>

Lexed(r) == r.ok /\ parser' = [parser EXCEPT !.AST = r.node]

\* the grammar matches a string at the start of the text
LexOk ==
    /\ pc = "text"
    /\ Lexed(LexString(parser.Buffer, 0))
    /\ pc' = "lexed"
    /\ UNCHANGED <<conf, orig, removed, nEdits, last, jblk, out, raw, s, res,
                   input, appended>>

\* the grammar matches no string there: a ParseError
LexError ==
    /\ pc = "text"
    /\ ~LexString(parser.Buffer, 0).ok
    /\ pc' = "rejected"
    /\ UNCHANGED <<parser, conf, orig, removed, nEdits, last, jblk, out, raw, s,
                   res, input, appended>>

\* parser.HandleString(node): the caller gets a JailValue and nothing else
Decode ==
    /\ pc = "lexed"
    /\ res' = [outcome |-> "value", value |-> HandleString(parser, parser.AST)]
    /\ pc' = "decoded"
    /\ UNCHANGED <<parser, conf, orig, removed, nEdits, last, jblk, out, raw, s,
                   input, appended>>

NextCodec == Encode \/ TakeLiteral \/ LexOk \/ LexError \/ Decode

SpecCodec == InitCodec /\ [][NextCodec]_vars

(***************************************************************************)
(* Properties of the raw editor                                            *)
(***************************************************************************)
Min(S) == CHOOSE x \in S : \A y \in S : x <= y

Max(S) == CHOOSE x \in S : \A y \in S : x >= y

IsSynth(e) == IsBlockEntry(e) /\ e.Node = NilNode

\* the JailBlock a block entry stands for: the block of its node, or the
\* block it was synthesized from (the k-th synthesized entry is the k-th
\* append)
EntryBlock(entries, i) ==
    IF IsSynth(entries[i])
    THEN appended[Cardinality({j \in 1..i : IsSynth(entries[j])})]
    ELSE HandleJailBlock(parser, entries[i].Node).block

NamedAt(entries, name) ==
    {i \in 1..Len(entries) :
        IsBlockEntry(entries[i]) /\ EntryBlock(entries, i).Name = name}

RECURSIVE Others(_, _, _)
Others(entries, name, i) ==
    IF i > Len(entries) THEN <<>>
    ELSE (IF i \in NamedAt(entries, name) THEN <<>> ELSE <<entries[i]>>)
         \o Others(entries, name, i + 1)

IsOriginal(e) == e.Node # NilNode

NotRemoved(e) ==
    ~(IsBlockEntry(e) /\ HandleJailBlock(parser, e.Node).block.Name \in removed)

SameEntries(a, b) ==
    /\ Len(a) = Len(b)
    /\ \A i \in 1..Len(a) :
          a[i].Node = b[i].Node /\ EntryWriteTo(a[i]) = EntryWriteTo(b[i])

\* C1: after any sequence of removeBlock and appendBlock edits, the entries
\* of the original document that no completed removeBlock named are all still
\* in the document, in their original order, and the raw writer emits for
\* each the text it emitted before the edits.
RawFidelityUnderEdits ==
    pc = "raw" =>
        SameEntries(SelectSeq(conf.Entries, IsOriginal),
                    SelectSeq(orig.Entries, NotRemoved))

\* a removeBlock took a block out, another entry stayed, and a block was
\* appended after it
RawFidelityWitness ==
    /\ pc = "raw" /\ last.op = "append" /\ removed # {}
    /\ Len(SelectSeq(orig.Entries, NotRemoved)) > 0
    /\ Len(SelectSeq(orig.Entries, NotRemoved)) < Len(orig.Entries)
    /\ Len(conf.Entries) > Len(SelectSeq(orig.Entries, NotRemoved))

RECURSIVE NodeTexts(_)
NodeTexts(nodes) ==
    IF nodes = <<>> THEN <<>>
    ELSE NodeText(parser, Head(nodes)) \o NodeTexts(Tail(nodes))

\* C2: the raw document that buildRawDocument builds has one entry per
\* top-level node, in source order, and the raw writer emits for each entry
\* (for a block entry: the concatenation of its children's texts) exactly the
\* source bytes of the node's span [begin, end).
RawRoundTrip ==
    pc = "raw" =>
        /\ Len(orig.Entries) = Len(parser.AST.up)
        /\ JailConfRawWriteTo(orig) = NodeTexts(parser.AST.up)
        /\ \A i \in 1..Len(orig.Entries) :
              /\ orig.Entries[i].Node = parser.AST.up[i]
              /\ EntryWriteTo(orig.Entries[i]) = NodeText(parser, parser.AST.up[i])

\* C3: findBlock(doc, name) returns the decoded contents of the first block
\* entry of doc whose name is name, and the not-found error with no block
\* when no block entry has that name.
FindBlockFirstMatch ==
    last.op = "find" =>
        IF NamedAt(last.pre.Entries, last.name) = {}
        THEN last.outcome = "err" /\ last.block = EmptyBlock
        ELSE /\ last.outcome = "ok"
             /\ last.block =
                  EntryBlock(last.pre.Entries, Min(NamedAt(last.pre.Entries, last.name)))

\* C4: removeBlock(doc, name) returns the document that holds every entry
\* of doc but the block entries named name, in the original order, so no
\* block entry named name is left; wasRemoved is true iff an entry was
\* removed.
RemoveBlockRemovesAll ==
    last.op = "remove" =>
        /\ last.outcome = "ok"
        /\ conf.Entries = Others(last.pre.Entries, last.name, 1)
        /\ NamedAt(conf.Entries, last.name) = {}
        /\ last.wasRemoved <=> (NamedAt(last.pre.Entries, last.name) # {})

\* C10: on a document reached by appendBlock and removeBlock edits, findBlock
\* and removeBlock run to completion; an appended block B is found by
\* findBlock(B.name), with B's fields, when no earlier block has that name,
\* and removeBlock(B.name) removes it and returns wasRemoved = true.
EditsComposeAfterAppend ==
    /\ last.op \in {"find", "remove"} => last.outcome # "panic"
    /\ \A i \in 1..Len(last.pre.Entries) :
          IsSynth(last.pre.Entries[i]) /\ last.op \in {"find", "remove"}
            /\ EntryBlock(last.pre.Entries, i).Name = last.name =>
              /\ (last.op = "find"
                    /\ Min(NamedAt(last.pre.Entries, last.name)) = i) =>
                    (last.outcome = "ok"
                       /\ last.block = EntryBlock(last.pre.Entries, i))
              /\ last.op = "remove" =>
                    (last.wasRemoved /\ NamedAt(conf.Entries, last.name) = {})

(***************************************************************************)
(* Properties of block assembly and serialisation                          *)
(***************************************************************************)
\* the statements of the block the source text was written from
Stmts == input[1].stmts

\* the value of a literal that has no escape in it
LitValue(lit) == IF lit[1] = "'" THEN SubSeq(lit, 2, Len(lit) - 1) ELSE lit

TargetKey(st) ==
    IF st.kind = "key_set" THEN GetKeySetValue(st.lit)[1] ELSE st.lit

StmtItems(st) ==
    IF st.kind = "key_set" THEN <<GetKeySetValue(st.lit)[2]>>
    ELSE [i \in 1..Len(st.vals) |-> LitValue(st.vals[i])]

IsAppend(st) == st.kind = "key_value_append_pair"

\* index of the last plain assignment or bare flag to k, 0 when none
LastPlain(stmts, k) ==
    Max({0} \cup {i \in 1..Len(stmts) :
                     ~IsAppend(stmts[i]) /\ TargetKey(stmts[i]) = k})

RECURSIVE AppendsFrom(_, _, _)
AppendsFrom(stmts, k, i) ==
    IF i > Len(stmts) THEN <<>>
    ELSE (IF IsAppend(stmts[i]) /\ TargetKey(stmts[i]) = k
          THEN StmtItems(stmts[i]) ELSE <<>>)
         \o AppendsFrom(stmts, k, i + 1)

ExpectedItems(stmts, k) ==
    (IF LastPlain(stmts, k) = 0 THEN <<>>
     ELSE StmtItems(stmts[LastPlain(stmts, k)]))
    \o AppendsFrom(stmts, k, LastPlain(stmts, k) + 1)

\* C6: after a block's statements are processed in source order, the keys of
\* the block are the keys the statements name, and the Value of each key is
\* the items of the last plain assignment or bare flag to it (none if there
\* is none) followed by the items of every later append-assignment to it, in
\* source order.
AppendSemantics ==
    pc # "parsed" =>
        /\ DOMAIN jblk.KeyValuePairs = {TargetKey(Stmts[i]) : i \in 1..Len(Stmts)}
        /\ \A k \in DOMAIN jblk.KeyValuePairs :
              jblk.KeyValuePairs[k].Items = ExpectedItems(Stmts, k)

\* k = 1,2,3; k += 4; has been assembled into ["1","2","3","4"]
AppendSemanticsWitness ==
    /\ pc = "built"
    /\ Len(Stmts) = 2
    /\ ~IsAppend(Stmts[1]) /\ Len(Stmts[1].vals) = 3
    /\ IsAppend(Stmts[2]) /\ Stmts[2].lit = Stmts[1].lit
    /\ jblk.KeyValuePairs[<<"k">>].Items = << <<"1">>, <<"2">>, <<"3">>, <<"4">> >>

RECURSIVE FirstSeen(_, _, _)
FirstSeen(stmts, i, seen) ==
    IF i > Len(stmts) THEN <<>>
    ELSE (IF TargetKey(stmts[i]) \in seen THEN <<>>
          ELSE <<TargetKey(stmts[i])>>)
         \o FirstSeen(stmts, i + 1, seen \cup {TargetKey(stmts[i])})

\* C5: the text the raw writer emits for the entry synthesized from a Block
\* is the text the Structured Writer emits for that Block: the encoded name,
\* " {\n", one "  key = values;\n" line per field, "}\n", and nothing else.
SynthesizedIsWritten ==
    pc = "synthesized" =>
        EntryWriteTo(raw) \in
            {JailBlockWriteTo(jblk, o) : o \in RangeOrders(jblk.KeyValuePairs)}

\* C7: the Structured Writer and the block synthesizer emit the fields of a
\* Block in the order in which their keys were first assigned.
DeterministicFieldOrder ==
    /\ pc \in {"written", "synthesized"} =>
          out = JailBlockWriteTo(jblk, FirstSeen(Stmts, 1, {}))
    /\ pc = "synthesized" => raw = ToRaw(jblk, FirstSeen(Stmts, 1, {}))

(***************************************************************************)
(* Properties of the codec                                                 *)
(***************************************************************************)
\* the children of the literal's unquoted, single-quoted or double-quoted node
LiteralKids ==
    IF parser.AST.up[1].pegRule = "unquoted_string"
    THEN parser.AST.up[1].up
    ELSE parser.AST.up[1].up[1].up

\* C8: for every string s, the literal EscapeString(s) is lexed by the
\* grammar as one string literal, and decoding that literal gives s.
EncodeDecodeRoundTrip ==
    last.op = "encode" /\ pc \in {"rejected", "decoded"} =>
        /\ pc = "decoded"
        /\ parser.AST.end = Len(parser.Buffer)
        /\ res.value.Items = <<s>>

\* C9: when the text assembled from a literal is not a well-formed escape
\* sequence, the decoder reports a decode error and returns no Value.
MalformedEscapeReported ==
    pc = "decoded" /\ Unquote(AssembleText(parser, LiteralKids, 1)).err =>
        res.outcome = "error"

=============================================================================
